---- MODULE Spec2Model ----
(***************************************************************************)
(* A model of the SuperNodes library: the SuperNode tree (supernodes/      *)
(* nodes.py), its child management and its use as a binary decision tree,  *)
(* and the InEquality evaluator (supernodes/operations.py).                *)
(*                                                                         *)
(* Python objects are tagged records [t |-> <type>, v |-> <payload>].      *)
(* Python strings are sequences of one-character strings.  SuperNode       *)
(* objects live in a heap, the sequence `nodes'; a reference to the        *)
(* object at heap index i is the value [t |-> "SuperNode", v |-> i].       *)
(***************************************************************************)
EXTENDS Integers, Sequences, FiniteSets, TLC

VARIABLES nodes, last, pc

vars == <<nodes, last, pc>>

----------------------------------------------------------------------------
(* Bounds of the model *)

\* the largest number of SuperNode objects alive in the heap
MaxNodes == 4
\* the largest number of parent-to-child links in the heap
MaxEdges == 3
\* the largest `num' passed to split
MaxNum == 2
\* the largest number of nodes of a tree the router is run on
MaxRouteNodes == 3
\* the largest integer bound to an element of x in the decision-tree test
MaxInt == 3
\* the largest number of nodes of a tree that is searched, listed or copied
MaxTreeNodes == 4
\* the largest number of characters of a string an InEquality is made from
MaxLen == 7
\* the nodes of a tree that is rendered to text
MaxRenderNodes == 3

----------------------------------------------------------------------------
(* Python values *)

PyNone == [t |-> "NoneType", v |-> 0]
PyBool(b) == [t |-> "bool", v |-> b]
PyInt(i) == [t |-> "int", v |-> i]
PyStr(s) == [t |-> "str", v |-> s]
PyList(l) == [t |-> "list", v |-> l]
PyDict(d) == [t |-> "dict", v |-> d]
PyFloat(i) == [t |-> "float", v |-> i]
PyDecimal(i) == [t |-> "Decimal", v |-> i]
\* the callable `lambda **kwargs: kwargs[k]' that returns the object bound
\* to the keyword k
PyFunction(k) == [t |-> "function", v |-> k]
Ref(i) == [t |-> "SuperNode", v |-> i]

\* the integer a bool or int counts as in a comparison
NumOf(a) == IF a.t = "bool" THEN (IF a.v THEN 1 ELSE 0) ELSE a.v

\* the numbers of the model are whole: int, bool, and float and Decimal
\* objects of integral value
IsNum(a) == a.t \in {"bool", "int", "float", "Decimal"}

\* Python's ==
PyEq(a, b) ==
    IF IsNum(a) /\ IsNum(b) THEN NumOf(a) = NumOf(b)
    ELSE a.t = b.t /\ a.v = b.v

\* Python's truth value of an object (SuperNode defines neither __bool__
\* nor __len__, so a node is always true)
Truthy(a) ==
    CASE a.t = "NoneType" -> FALSE
      [] a.t = "bool" -> a.v
      [] a.t \in {"int", "float", "Decimal"} -> a.v # 0
      [] a.t \in {"str", "list", "dict"} -> Len(a.v) > 0
      [] OTHER -> TRUE

\* `x in lst' for a Python list held as a sequence
PyIn(x, lst) == \E i \in 1..Len(lst) : PyEq(lst[i], x)

\* lists and dicts have no __name__ attribute, functions have one
has___name__(a) == a.t = "function"

\* the sequence s without its element at position i
RemoveAt(s, i) == [j \in 1..(Len(s) - 1) |-> IF j < i THEN s[j] ELSE s[j + 1]]

\* the sequence s with e placed before position i (1 <= i <= Len(s) + 1)
InsertAt(s, i, e) ==
    [j \in 1..(Len(s) + 1) |-> IF j < i THEN s[j] ELSE IF j = i THEN e ELSE s[j - 1]]

----------------------------------------------------------------------------
(* SuperNode *)

\* SuperNode.__init__
SuperNode(name, value, id, function, child_name_if_true, child_name_if_false) ==
    [name |-> name, value |-> value, id |-> id, children |-> << >>,
     function |-> function,
     child_name_if_true |-> child_name_if_true,
     child_name_if_false |-> child_name_if_false,
     other_attrs |-> << >>]

\* the outcome of a call: the heap after it, the exception that left it
\* ("none" when it returned) and the returned value
Outcome(h, err, ret) == [nodes |-> h, err |-> err, ret |-> ret]

\* _object_to_node that passes the object to SuperNode as its first
\* positional argument, the name
_object_to_node_positional(h, object) ==
    IF object.t = "SuperNode"
    THEN [nodes |-> h, node |-> object.v]
    ELSE [nodes |-> Append(h, SuperNode(object, PyNone, PyNone, PyNone, PyNone, PyNone)),
          node |-> Len(h) + 1]

\* SuperNode._object_to_node: a node is passed through, anything else is
\* wrapped in a newly allocated node whose value it is
_object_to_node(h, object) ==
    IF object.t = "SuperNode"
    THEN [nodes |-> h, node |-> object.v]
    ELSE [nodes |-> Append(h, SuperNode(PyNone, object, PyNone, PyNone, PyNone, PyNone)),
          node |-> Len(h) + 1]

has_children(h, self) == Len(h[self].children) > 0

\* get_children_names with the last child left out of the listing
get_children_names_skip_last(h, self) ==
    LET ch == h[self].children
        named == SelectSeq(SubSeq(ch, 1, Len(ch) - 1), LAMBDA c : h[c].name # PyNone)
    IN  [i \in 1..Len(named) |-> h[named[i]].name]

\* SuperNode.get_children_names: the non-None names of the direct children
get_children_names(h, self) ==
    LET named == SelectSeq(h[self].children, LAMBDA c : h[c].name # PyNone)
    IN  [i \in 1..Len(named) |-> h[named[i]].name]

\* the position in children of the first child whose name == name, 0 if none
FirstNamed(h, self, name) ==
    LET ch == h[self].children
        hits == {i \in 1..Len(ch) : PyEq(h[ch[i]].name, name)}
    IN  IF hits = {} THEN 0 ELSE CHOOSE i \in hits : \A j \in hits : i <= j

\* get_child_from_name that returns the child the loop ended on when no
\* child has the name
get_child_from_name_last(h, self, name) ==
    LET i == FirstNamed(h, self, name)
        ch == h[self].children
    IN  IF i # 0 THEN Ref(ch[i])
        ELSE IF Len(ch) > 0 THEN Ref(ch[Len(ch)]) ELSE PyNone

\* get_child_from_name that looks for the name among all other nodes, not
\* only among the children of self
get_child_from_name_deep(h, self, name) ==
    LET named == {i \in (1..Len(h)) \ {self} : PyEq(h[i].name, name)}
    IN  IF named = {} THEN PyNone ELSE Ref(CHOOSE i \in named : \A j \in named : i <= j)

\* SuperNode.get_child_from_name
get_child_from_name(h, self, name) ==
    LET i == FirstNamed(h, self, name)
    IN  IF i = 0 THEN PyNone ELSE Ref(h[self].children[i])

\* SuperNode.append
append(h, self, x) ==
    LET r == _object_to_node(h, x)
        h1 == r.nodes
        node == r.node
    IN  IF PyIn(h1[node].name, get_children_names(h1, self))
        THEN Outcome(h, "ValueError", PyNone)
        ELSE Outcome([h1 EXCEPT ![self].children = Append(@, node)], "none", PyNone)

\* SuperNode.insert: after the name check the method calls itself with the
\* same index and the node, which passes the same check again and recurses
\* until the interpreter raises RecursionError; children is never touched
insert(h, self, index, x) ==
    LET r == _object_to_node(h, x)
        h1 == r.nodes
        node == r.node
    IN  IF PyIn(h1[node].name, get_children_names(h1, self))
        THEN Outcome(h, "ValueError", PyNone)
        ELSE Outcome(h, "RecursionError", PyNone)

\* SuperNode.__setitem__
__setitem__(h, self, name, x) ==
    LET i == FirstNamed(h, self, name)
        h1 == IF i = 0 THEN h ELSE [h EXCEPT ![self].children = RemoveAt(@, i)]
        r == _object_to_node(h1, x)
        h2 == [r.nodes EXCEPT ![r.node].name = name]
        a == append(h2, self, Ref(r.node))
    IN  IF a.err = "none" THEN a ELSE Outcome(h2, a.err, PyNone)

\* the `for attr in [names, values, ids, functions, other_attrs_lists]' loop
\* of split, from position k on: every supplied (true) list must have num
\* entries and is then stored under attr.__name__; the length error message
\* is formatted with attr.__name__ too
RECURSIVE split_attrs(_, _, _, _)
split_attrs(given, k, num, attrs) ==
    IF k > Len(given) THEN [err |-> "none", attrs |-> attrs]
    ELSE LET attr == given[k]
         IN  IF ~Truthy(attr) THEN split_attrs(given, k + 1, num, attrs)
             ELSE IF Len(attr.v) # num
                  THEN [err |-> IF has___name__(attr) THEN "ValueError" ELSE "AttributeError",
                        attrs |-> attrs]
                  ELSE IF has___name__(attr)
                       THEN split_attrs(given, k + 1, num, [attrs EXCEPT ![k] = attr.v])
                       ELSE [err |-> "AttributeError", attrs |-> attrs]

\* range(num) as a set of positions 1..num (empty for num <= 0)
range(num) == 1..num

\* SuperNode.split
split(h, self, num, names, values, ids, functions, other_attrs_lists) ==
    LET nones == [i \in range(num) |-> PyNone]
        a == split_attrs(<<names, values, ids, functions, other_attrs_lists>>, 1, num,
                         <<nones, nones, nones, nones>>)
        made == [i \in range(num) |->
                    SuperNode(a.attrs[1][i], a.attrs[2][i], a.attrs[3][i],
                              a.attrs[4][i], PyNone, PyNone)]
        new_children == [i \in range(num) |-> Len(h) + i]
    IN  IF a.err # "none" THEN Outcome(h, a.err, PyNone)
        ELSE Outcome([(h \o made) EXCEPT ![self].children = @ \o new_children],
                     "none", PyList([i \in range(num) |-> Ref(new_children[i])]))

----------------------------------------------------------------------------
(* InEquality (supernodes/operations.py) *)

Digits == {"0", "1", "2", "3", "4", "5", "6", "7", "8", "9"}

Letters == {"a", "b", "c", "d", "e", "f", "g", "h", "i", "j", "k", "l", "m",
            "n", "o", "p", "q", "r", "s", "t", "u", "v", "w", "x", "y", "z"}

\* the characters the regular expression class \w matches
IsWord(c) == c \in Digits \cup Letters \cup {"_"}

\* the characters of the model's strings in the order of their code points
Alphabet == <<" ", "!", "-", ".", "0", "1", "2", "3", "4", "5", "6", "7", "8", "9",
              "<", "=", ">", "[", "]", "_",
              "a", "b", "c", "d", "e", "f", "g", "h", "i", "j", "k", "l", "m",
              "n", "o", "p", "q", "r", "s", "t", "u", "v", "w", "x", "y", "z">>

Ord(c) == CHOOSE i \in 1..Len(Alphabet) : Alphabet[i] = c

DigitVal(c) == Ord(c) - Ord("0")

\* str.split(" "): the parts of s between single blanks from position i on,
\* empty parts included, cur being the part read so far
RECURSIVE split_blank(_, _, _)
split_blank(s, i, cur) ==
    IF i > Len(s) THEN <<cur>>
    ELSE IF s[i] = " " THEN <<cur>> \o split_blank(s, i + 1, << >>)
    ELSE split_blank(s, i + 1, Append(cur, s[i]))

\* str.split(): the maximal runs of non-blank characters of s from position
\* i on, cur being the run read so far
RECURSIVE split_ws(_, _, _)
split_ws(s, i, cur) ==
    LET flush == IF cur = << >> THEN << >> ELSE <<cur>>
    IN  IF i > Len(s) THEN flush
        ELSE IF s[i] = " " THEN flush \o split_ws(s, i + 1, << >>)
        ELSE split_ws(s, i + 1, Append(cur, s[i]))

\* the outcome of an evaluation: the exception raised ("none" when it
\* returned) and the object returned
Result(err, ret) == [err |-> err, ret |-> ret]

\* InEquality.__init__: the three blank-separated parts of the string
InEquality(inequality, strings_to_numbers) ==
    LET inequality_list == split_ws(inequality, 1, << >>)
    IN  IF Len(inequality_list) # 3
        THEN Result("ValueError", PyNone)
        ELSE Result("none", [left |-> inequality_list[1],
                             middle |-> inequality_list[2],
                             right |-> inequality_list[3],
                             strings_to_numbers |-> strings_to_numbers])

\* the positions of "]" in tok from position i on
ClosersFrom(tok, i) == {m \in i..Len(tok) : tok[m] = "]"}

Max(S) == CHOOSE m \in S : \A n \in S : n <= m
Min(S) == CHOOSE m \in S : \A n \in S : m <= n

\* re.findall(r"\w+\[(.+)\]", tok): the leftmost match starts in the first
\* run of word characters that is followed by "[", at least one character
\* and a "]"; the greedy group runs up to the last "]" of tok, so that no
\* second match follows
findall_indices(tok) ==
    LET opens == {k \in 2..Len(tok) : /\ tok[k] = "["
                                      /\ IsWord(tok[k - 1])
                                      /\ ClosersFrom(tok, k + 2) # {}}
    IN  IF opens = {} THEN << >>
        ELSE LET k == Min(opens)
                 m == Max(ClosersFrom(tok, k + 2))
             IN  <<SubSeq(tok, k + 1, m - 1)>>

\* re.search(key + r"\[(.+)\]", tok) finds a match: key occurs somewhere in
\* tok, followed by "[", at least one character and a "]"
search_key(key, tok) ==
    \E p \in 1..Len(tok) :
        /\ p + Len(key) <= Len(tok)
        /\ SubSeq(tok, p, p + Len(key) - 1) = key
        /\ tok[p + Len(key)] = "["
        /\ ClosersFrom(tok, p + Len(key) + 2) # {}

\* the `for key, value in kwargs.items()' loop: the operand after it, kwargs
\* being the sequence of <<key, value>> pairs in the order they were passed
substitute(tok, kwargs) ==
    LET hits == {i \in 1..Len(kwargs) :
                    tok = kwargs[i][1] \/ search_key(kwargs[i][1], tok)}
    IN  IF hits = {} THEN PyStr(tok) ELSE kwargs[Min(hits)][2]

\* _is_int: str.isdigit()
_is_int(string_num) ==
    Len(string_num) > 0 /\ \A i \in 1..Len(string_num) : string_num[i] \in Digits

\* int() of a string of digits
RECURSIVE int_of(_)
int_of(digits) ==
    IF digits = << >> THEN 0
    ELSE 10 * int_of(SubSeq(digits, 1, Len(digits) - 1)) + DigitVal(digits[Len(digits)])

\* _is_decimal that accepts no minus sign
_is_decimal_plus_only(string_num) ==
    /\ ~_is_int(string_num)
    /\ Len(string_num) > 1
    /\ string_num[1] = "+"
    /\ _is_int(Tail(string_num))

\* _is_decimal: not all digits and float() accepts the string; of the
\* strings over the characters of the model that holds for a sign followed
\* by digits
_is_decimal(string_num) ==
    /\ ~_is_int(string_num)
    /\ Len(string_num) > 1
    /\ string_num[1] \in {"-", "+"}
    /\ _is_int(Tail(string_num))

\* the value float() and Decimal() give a string _is_decimal accepts
signed_of(string_num) ==
    IF string_num[1] = "-" THEN 0 - int_of(Tail(string_num)) ELSE int_of(Tail(string_num))

\* the numeric coercion of the left operand
coerce_left(left) ==
    IF left.t # "str" THEN left
    ELSE IF _is_int(left.v) THEN PyInt(int_of(left.v))
    ELSE IF _is_decimal(left.v) THEN PyDecimal(signed_of(left.v))
    ELSE left

\* the numeric coercion of the right operand
coerce_right(right) ==
    IF right.t # "str" THEN right
    ELSE IF _is_int(right.v) THEN PyInt(int_of(right.v))
    ELSE IF _is_decimal(right.v) THEN PyFloat(signed_of(right.v))
    ELSE right

\* the numeric coercion of an index expression
coerce_index(index) ==
    IF _is_int(index) THEN PyInt(int_of(index))
    ELSE IF _is_decimal(index) THEN PyFloat(signed_of(index))
    ELSE PyStr(index)

\* obj[index] with positions counted from one
subscript_from_one(obj, index) ==
    IF obj.t \in {"list", "str"}
    THEN IF index.t \notin {"int", "bool"} THEN Result("TypeError", PyNone)
         ELSE LET pos == NumOf(index)
              IN  IF pos < 1 \/ pos > Len(obj.v) THEN Result("IndexError", PyNone)
                  ELSE Result("none", IF obj.t = "str" THEN PyStr(<<obj.v[pos]>>)
                                      ELSE obj.v[pos])
    ELSE Result("TypeError", PyNone)

\* obj[index]
subscript(obj, index) ==
    IF obj.t \in {"list", "str"}
    THEN IF index.t \notin {"int", "bool"} THEN Result("TypeError", PyNone)
         ELSE LET i == NumOf(index)
                  pos == IF i < 0 THEN Len(obj.v) + i + 1 ELSE i + 1
              IN  IF pos < 1 \/ pos > Len(obj.v) THEN Result("IndexError", PyNone)
                  ELSE Result("none", IF obj.t = "str" THEN PyStr(<<obj.v[pos]>>)
                                      ELSE obj.v[pos])
    ELSE Result("TypeError", PyNone)

\* the `for index in indices' loop from position k on
RECURSIVE apply_indices(_, _, _)
apply_indices(obj, indices, k) ==
    IF k > Len(indices) THEN Result("none", obj)
    ELSE LET r == subscript(obj, coerce_index(indices[k]))
         IN  IF r.err # "none" THEN r ELSE apply_indices(r.ret, indices, k + 1)

\* the keys of the operators table
operators == {<<"<">>, <<"<", "=">>, <<"=", "=">>, <<"!", "=">>, <<">", "=">>, <<">">>}

\* s < t for two strings, by code points
RECURSIVE str_less(_, _)
str_less(s, t) ==
    IF t = << >> THEN FALSE
    ELSE IF s = << >> THEN TRUE
    ELSE IF s[1] # t[1] THEN Ord(s[1]) < Ord(t[1])
    ELSE str_less(Tail(s), Tail(t))

\* the order of a and b: "lt", "eq" or "gt" for two numbers, two strings or
\* two lists, which are ordered by their elements at the first position
\* where these are not equal and by their lengths when there is none;
\* "TypeError" for objects that cannot be ordered
RECURSIVE Compare(_, _)
Compare(a, b) ==
    IF IsNum(a) /\ IsNum(b)
    THEN (IF NumOf(a) < NumOf(b) THEN "lt" ELSE IF NumOf(a) = NumOf(b) THEN "eq" ELSE "gt")
    ELSE IF a.t = "str" /\ b.t = "str"
    THEN (IF a.v = b.v THEN "eq" ELSE IF str_less(a.v, b.v) THEN "lt" ELSE "gt")
    ELSE IF a.t = "list" /\ b.t = "list"
    THEN LET diff == {i \in 1..Min({Len(a.v), Len(b.v)}) : ~PyEq(a.v[i], b.v[i])}
         IN  IF diff # {} THEN Compare(a.v[Min(diff)], b.v[Min(diff)])
             ELSE IF Len(a.v) < Len(b.v) THEN "lt"
             ELSE IF Len(a.v) = Len(b.v) THEN "eq" ELSE "gt"
    ELSE "TypeError"

\* a and b can be ordered
Orderable(a, b) == Compare(a, b) # "TypeError"

\* a < b for orderable a, b
PyLess(a, b) == Compare(a, b) = "lt"

\* operators[middle](left, right)
oper(middle, left, right) ==
    IF middle \notin operators THEN Result("KeyError", PyNone)
    ELSE IF middle = <<"=", "=">> THEN Result("none", PyBool(PyEq(left, right)))
    ELSE IF middle = <<"!", "=">> THEN Result("none", PyBool(~PyEq(left, right)))
    ELSE IF ~Orderable(left, right) THEN Result("TypeError", PyNone)
    ELSE Result("none", PyBool(
            CASE middle = <<"<">> -> PyLess(left, right)
              [] middle = <<"<", "=">> -> ~PyLess(right, left)
              [] middle = <<">", "=">> -> ~PyLess(left, right)
              [] middle = <<">">> -> PyLess(right, left)))

\* InEquality.__call__ on the instance self
InEquality_call(self, kwargs) ==
    LET left_indices == findall_indices(self.left)
        right_indices == findall_indices(self.right)
        left0 == substitute(self.left, kwargs)
        right0 == substitute(self.right, kwargs)
        l == IF self.strings_to_numbers
             THEN apply_indices(coerce_left(left0), left_indices, 1)
             ELSE Result("none", left0)
        r == IF self.strings_to_numbers
             THEN apply_indices(coerce_right(right0), right_indices, 1)
             ELSE Result("none", right0)
    IN  IF l.err # "none" THEN l
        ELSE IF r.err # "none" THEN r
        ELSE oper(self.middle, l.ret, r.ret)

\* InEquality.__call__ that keeps a substituted string as the operand of the
\* instance
InEquality_after_call_rebound(self, kwargs) ==
    LET left == substitute(self.left, kwargs)
        right == substitute(self.right, kwargs)
    IN  [self EXCEPT !.left = IF left.t = "str" THEN left.v ELSE @,
                     !.right = IF right.t = "str" THEN right.v ELSE @]

\* the instance after InEquality.__call__: the method binds the locals left
\* and right and assigns no attribute of self
InEquality_after_call(self, kwargs) == self

----------------------------------------------------------------------------
(* The decision router *)

\* kwargs[key]
Bound(kwargs, key) ==
    LET hits == {i \in 1..Len(kwargs) : kwargs[i][1] = key}
    IN  IF hits = {} THEN Result("KeyError", PyNone)
        ELSE Result("none", kwargs[Max(hits)][2])

\* the evaluation of a node's function: a string goes through InEquality,
\* anything else is called
call_function(function, kwargs) ==
    IF function.t = "str"
    THEN LET ineq == InEquality(function.v, TRUE)
         IN  IF ineq.err # "none" THEN ineq ELSE InEquality_call(ineq.ret, kwargs)
    ELSE IF function.t = "function" THEN Bound(kwargs, function.v)
    ELSE Result("TypeError", PyNone)

\* SuperNode.run_as_binary_tree; depth counts the nested calls, and a call
\* nested deeper than there are nodes has come back to a node it left with
\* the same kwargs, which recurses until the interpreter raises
\* RecursionError
RECURSIVE run_from(_, _, _, _)
run_from(h, self, kwargs, depth) ==
    IF depth > Len(h) THEN Result("RecursionError", PyNone)
    ELSE IF ~Truthy(h[self].function) THEN Result("none", Ref(self))
    ELSE LET output == call_function(h[self].function, kwargs)
             branch == IF Truthy(output.ret) THEN h[self].child_name_if_true
                       ELSE IF output.ret = PyBool(FALSE) THEN h[self].child_name_if_false
                       ELSE PyNone
             child == IF Truthy(branch) THEN get_child_from_name(h, self, branch) ELSE PyNone
         IN  IF output.err # "none" THEN output
             ELSE IF Truthy(child) THEN run_from(h, child.v, kwargs, depth + 1)
             ELSE Result("none", Ref(self))

run_as_binary_tree(h, self, kwargs) == run_from(h, self, kwargs, 1)

----------------------------------------------------------------------------
(* The main specification: a program that holds two nodes, root and other, *)
(* constructs further nodes, and calls the child-management methods on     *)
(* root and other with those nodes and with raw objects as arguments.      *)

\* the names the program gives to nodes
Names == {PyStr(<<"a">>)}

\* the positions passed to insert: the front and one beyond the end of every
\* children list
Indices == {0, MaxEdges + 1}

\* the raw (non-node) objects the program passes as children
RawValues == {PyInt(1)}

\* the nodes the program calls methods on: root and other
Receivers == {1, 2}

\* references to the nodes of heap h the program passes as arguments: every
\* node but root and other
Refs(h) == {Ref(i) : i \in (1..Len(h)) \ Receivers}

\* the (names, values) arguments passed to split: no list, an empty list of
\* names, a list of two names, a list of one value
SplitArgs ==
    {<<n, PyNone>> : n \in {PyNone, PyList(<< >>),
                            PyList(<<PyStr(<<"a">>), PyStr(<<"b">>)>>)}}
    \cup {<<PyNone, PyList(<<PyInt(1)>>)>>}

\* the name the argument x of a call carries once coerced to a node
NameOfArg(h, x) == IF x.t = "SuperNode" THEN h[x.v].name ELSE PyNone

\* node self of heap h has a direct child named name
HasChildNamed(h, self, name) ==
    \E i \in 1..Len(h[self].children) : h[h[self].children[i]].name = name

\* the record of the last call: the method, the exception it raised ("none"
\* when it returned), the value it returned, and two observations of the
\* call: dup, a child of the receiver carried the argument's non-null name
\* when the call was made, and kept, the call left the heap as it was; a
\* routing call is recorded with its receiver and its keyword arguments
Call(op, dup, h, out) ==
    [op |-> op, err |-> out.err, ret |-> out.ret, dup |-> dup, kept |-> out.nodes = h,
     self |-> 0, kwargs |-> << >>]

RunCall(self, kwargs, out) ==
    [op |-> "run_as_binary_tree", err |-> out.err, ret |-> out.ret, dup |-> FALSE,
     kept |-> TRUE, self |-> self, kwargs |-> kwargs]

\* the observation dup for receiver self and argument x in heap h
Dup(h, self, x) == NameOfArg(h, x) # PyNone /\ HasChildNamed(h, self, NameOfArg(h, x))

\* the number of nodes a call allocates for an argument x
Allocs(x) == IF x.t = "SuperNode" THEN 0 ELSE 1

RECURSIVE SumLen(_, _)
SumLen(h, k) == IF k = 0 THEN 0 ELSE Len(h[k].children) + SumLen(h, k - 1)

\* the number of parent-to-child links in heap h
Edges(h) == SumLen(h, Len(h))

Init ==
    /\ nodes = <<SuperNode(PyNone, PyNone, PyNone, PyNone, PyNone, PyNone),
                 SuperNode(PyNone, PyNone, PyNone, PyNone, PyNone, PyNone)>>
    /\ last = Call("SuperNode", FALSE, << >>, Outcome(<< >>, "none", PyNone))
    /\ pc = "main"

\* SuperNode(name=name)
Construct(name) ==
    /\ Len(nodes) < MaxNodes
    /\ nodes' = Append(nodes, SuperNode(name, PyNone, PyNone, PyNone, PyNone, PyNone))
    /\ last' = Call("SuperNode", FALSE, nodes, Outcome(nodes', "none", PyNone))
    /\ UNCHANGED pc

\* self.append(x)
DoAppend(self, x) ==
    /\ Len(nodes) + Allocs(x) <= MaxNodes
    /\ Edges(nodes) < MaxEdges
    /\ LET out == append(nodes, self, x)
       IN  /\ nodes' = out.nodes
           /\ last' = Call("append", Dup(nodes, self, x), nodes, out)
    /\ UNCHANGED pc

\* self.insert(index, x)
DoInsert(self, index, x) ==
    /\ Len(nodes) + Allocs(x) <= MaxNodes
    /\ Edges(nodes) < MaxEdges
    /\ LET out == insert(nodes, self, index, x)
       IN  /\ nodes' = out.nodes
           /\ last' = Call("insert", Dup(nodes, self, x), nodes, out)
    /\ UNCHANGED pc

\* self[name] = x
DoSetitem(self, name, x) ==
    /\ Len(nodes) + Allocs(x) <= MaxNodes
    /\ Edges(nodes) < MaxEdges \/ FirstNamed(nodes, self, name) # 0
    /\ LET out == __setitem__(nodes, self, name, x)
       IN  /\ nodes' = out.nodes
           /\ last' = Call("__setitem__", Dup(nodes, self, x), nodes, out)
    /\ UNCHANGED pc

\* self.split(num=num, names=names, values=values)
DoSplit(self, num, names, values) ==
    /\ Len(nodes) + num <= MaxNodes
    /\ Edges(nodes) + num <= MaxEdges
    /\ LET out == split(nodes, self, num, names, values, PyNone, PyNone, PyDict(<< >>))
       IN  /\ nodes' = out.nodes
           /\ last' = Call("split", FALSE, nodes, out)
    /\ UNCHANGED pc

Next ==
    \/ \E name \in Names : Construct(name)
    \/ \E self \in Receivers, x \in Refs(nodes) \cup RawValues : DoAppend(self, x)
    \/ \E self \in Receivers, index \in Indices, x \in Refs(nodes) \cup RawValues :
          DoInsert(self, index, x)
    \/ \E self \in Receivers, name \in Names, x \in Refs(nodes) \cup RawValues :
          DoSetitem(self, name, x)
    \/ \E self \in Receivers, num \in 0..MaxNum, a \in SplitArgs :
          DoSplit(self, num, a[1], a[2])

Spec == Init /\ [][Next]_vars

----------------------------------------------------------------------------
(* The routing specification: a program that constructs a root with a      *)
(* function and branch names, grows a tree under it with                   *)
(* self[name] = SuperNode(..), and runs the router from any node.  The     *)
(* function of a node is the callable lambda **kwargs: kwargs["v"], so     *)
(* that the object bound to v is what the function returns.                *)

NameA == PyStr(<<"a">>)
NameB == PyStr(<<"b">>)
KeyV == <<"v">>

\* the (function, child_name_if_true, child_name_if_false) a node is
\* constructed with: no function, a function with both branch names, a
\* function with no branch name
RouteConfigs ==
    {<<PyNone, NameA, NameB>>,
     <<PyFunction(KeyV), NameA, NameB>>,
     <<PyFunction(KeyV), PyNone, PyNone>>}

\* the objects the functions return: true and false objects of several types
ReturnValues == {PyBool(TRUE), PyBool(FALSE), PyInt(1), PyInt(0), PyNone, PyStr(<< >>)}

\* root = SuperNode(function=.., child_name_if_true=.., child_name_if_false=..)
RouteInit ==
    /\ \E c \in RouteConfigs :
          nodes = <<SuperNode(PyNone, PyNone, PyNone, c[1], c[2], c[3])>>
    /\ last = Call("SuperNode", FALSE, << >>, Outcome(<< >>, "none", PyNone))
    /\ pc = "route"

\* self[name] = SuperNode(function=.., child_name_if_true=.., child_name_if_false=..)
AddChild(self, name, c) ==
    /\ Len(nodes) < MaxRouteNodes
    /\ LET h == Append(nodes, SuperNode(PyNone, PyNone, PyNone, c[1], c[2], c[3]))
           out == __setitem__(h, self, name, Ref(Len(h)))
       IN  /\ nodes' = out.nodes
           /\ last' = Call("__setitem__", FALSE, nodes, out)
    /\ UNCHANGED pc

\* self.run_as_binary_tree(v=v)
Route(self, v) ==
    /\ last' = RunCall(self, <<<<KeyV, v>>>>, run_as_binary_tree(nodes, self, <<<<KeyV, v>>>>))
    /\ UNCHANGED <<nodes, pc>>

RouteNext ==
    \/ \E self \in 1..Len(nodes), name \in {NameA, NameB}, c \in RouteConfigs :
          AddChild(self, name, c)
    \/ \E self \in 1..Len(nodes), v \in ReturnValues : Route(self, v)

SpecRoute == RouteInit /\ [][RouteNext]_vars

----------------------------------------------------------------------------
(* The decision-tree specification: TestTree.test_decision_tree of         *)
(* tests/test1.py, statement by statement, with the router started on any  *)
(* node of the tree and x bound to any pair of small integers.             *)

Str_root == <<"r", "o", "o", "t">>
Str_child_1 == <<"c", "h", "i", "l", "d", "-", "1">>
Str_child_2 == <<"c", "h", "i", "l", "d", "-", "2">>
Str_grandchild_1 == <<"g", "r", "a", "n", "d">> \o Str_child_1
Str_grandchild_2 == <<"g", "r", "a", "n", "d">> \o Str_child_2
\* "x[0] > 1"
Str_root_function == <<"x", "[", "0", "]", " ", ">", " ", "1">>
\* "x[1] == 0"
Str_child_function == <<"x", "[", "1", "]", " ", "=", "=", " ", "0">>

\* the integers bound to the elements of x
TestInts == (-1)..MaxInt

\* the heap index of root[name]
ChildOf(h, self, name) == get_child_from_name(h, self, PyStr(name)).v

\* self[name] = SuperNode(value=value, function=function)
SetNew(h, self, name, value, function) ==
    LET h1 == Append(h, SuperNode(PyNone, value, PyNone, function, PyNone, PyNone))
    IN  __setitem__(h1, self, PyStr(name), Ref(Len(h1)))

DecisionInit ==
    /\ nodes = << >>
    /\ last = Call("SuperNode", FALSE, << >>, Outcome(<< >>, "none", PyNone))
    /\ pc = "line 13"

\* root = SuperNode(name="root", function="x[0] > 1")
Line13 ==
    /\ pc = "line 13"
    /\ nodes' = <<SuperNode(PyStr(Str_root), PyNone, PyNone, PyStr(Str_root_function),
                            PyNone, PyNone)>>
    /\ last' = Call("SuperNode", FALSE, nodes, Outcome(nodes', "none", PyNone))
    /\ pc' = "line 14"

\* root.child_name_if_true = "child-1"
Line14 ==
    /\ pc = "line 14"
    /\ nodes' = [nodes EXCEPT ![1].child_name_if_true = PyStr(Str_child_1)]
    /\ pc' = "line 15"
    /\ UNCHANGED last

\* root.child_name_if_false = "child-2"
Line15 ==
    /\ pc = "line 15"
    /\ nodes' = [nodes EXCEPT ![1].child_name_if_false = PyStr(Str_child_2)]
    /\ pc' = "line 16"
    /\ UNCHANGED last

\* root["child-1"] = SuperNode(value=1, function="x[1] == 0")
Line16 ==
    /\ pc = "line 16"
    /\ LET out == SetNew(nodes, 1, Str_child_1, PyInt(1), PyStr(Str_child_function))
       IN  nodes' = out.nodes /\ last' = Call("__setitem__", FALSE, nodes, out)
    /\ pc' = "line 17"

\* root["child-1"].child_name_if_true = "grandchild-1"
Line17 ==
    /\ pc = "line 17"
    /\ nodes' = [nodes EXCEPT ![ChildOf(nodes, 1, Str_child_1)].child_name_if_true =
                                 PyStr(Str_grandchild_1)]
    /\ pc' = "line 18"
    /\ UNCHANGED last

\* root["child-1"].child_name_if_false = "grandchild-2"
Line18 ==
    /\ pc = "line 18"
    /\ nodes' = [nodes EXCEPT ![ChildOf(nodes, 1, Str_child_1)].child_name_if_false =
                                 PyStr(Str_grandchild_2)]
    /\ pc' = "line 19"
    /\ UNCHANGED last

\* root["child-2"] = SuperNode(value=2)
Line19 ==
    /\ pc = "line 19"
    /\ LET out == SetNew(nodes, 1, Str_child_2, PyInt(2), PyNone)
       IN  nodes' = out.nodes /\ last' = Call("__setitem__", FALSE, nodes, out)
    /\ pc' = "line 20"

\* root['child-1']['grandchild-1'] = SuperNode(value=3)
Line20 ==
    /\ pc = "line 20"
    /\ LET out == SetNew(nodes, ChildOf(nodes, 1, Str_child_1), Str_grandchild_1,
                         PyInt(3), PyNone)
       IN  nodes' = out.nodes /\ last' = Call("__setitem__", FALSE, nodes, out)
    /\ pc' = "line 21"

\* root['child-1']['grandchild-2'] = SuperNode(value=4)
Line21 ==
    /\ pc = "line 21"
    /\ LET out == SetNew(nodes, ChildOf(nodes, 1, Str_child_1), Str_grandchild_2,
                         PyInt(4), PyNone)
       IN  nodes' = out.nodes /\ last' = Call("__setitem__", FALSE, nodes, out)
    /\ pc' = "line 22"

\* leaf = start.run_as_binary_tree(x=[x0, x1])
Line22(start, x0, x1) ==
    /\ pc = "line 22"
    /\ LET kwargs == <<<<<<"x">>, PyList(<<PyInt(x0), PyInt(x1)>>)>>>>
       IN  last' = RunCall(start, kwargs, run_as_binary_tree(nodes, start, kwargs))
    /\ pc' = "done"
    /\ UNCHANGED nodes

DecisionNext ==
    \/ Line13 \/ Line14 \/ Line15 \/ Line16 \/ Line17 \/ Line18 \/ Line19
    \/ Line20 \/ Line21
    \/ \E start \in 1..Len(nodes), x0 \in TestInts, x1 \in TestInts : Line22(start, x0, x1)

SpecDecision == DecisionInit /\ [][DecisionNext]_vars

----------------------------------------------------------------------------
(* Serialisation, search and path listing.  Attribute names (the keys of   *)
(* self.__dict__, of other_attrs and of a node dictionary) are TLA+        *)
(* strings; a dict is the sequence of its <<key, value>> items in          *)
(* insertion order.                                                        *)

\* the keys of self.__dict__, in the order __init__ assigns them
Fields ==
    <<"name", "value", "id", "children", "function", "child_name_if_true",
      "child_name_if_false", "other_attrs">>

\* the elements of a sequence
Elems(s) == {s[i] : i \in 1..Len(s)}

\* key in d.keys()
HasKey(d, key) == \E i \in 1..Len(d) : d[i][1] = key

\* d[key]
Lookup(d, key) == d[CHOOSE i \in 1..Len(d) : d[i][1] = key][2]

\* self.__dict__[key]
Attr(h, self, key) ==
    CASE key = "children" -> PyList([i \in 1..Len(h[self].children) |-> Ref(h[self].children[i])])
      [] key = "other_attrs" -> PyDict(h[self].other_attrs)
      [] OTHER -> h[self][key]

\* self.__dict__[key] = value
SetAttr(h, self, key, value) ==
    [h EXCEPT ![self][key] = IF key = "other_attrs" THEN value.v ELSE value]

\* the object None as an element of a children list
NoneChild == 0

\* SuperNode.to_node_dict
RECURSIVE to_node_dict(_, _)
to_node_dict(h, self) ==
    LET keys == SelectSeq(Fields, LAMBDA key : key # "children")
        ch == h[self].children
    IN  PyDict([i \in 1..Len(keys) |-> <<keys[i], Attr(h, self, keys[i])>>]
               \o << <<"children", PyList([i \in 1..Len(ch) |-> to_node_dict(h, ch[i])])>> >>)

\* the `for key, value in dictionary.items()' loop of from_node_dict, from
\* item k on: every key but "children" must be a key of self.__dict__ and is
\* assigned at once
RECURSIVE set_fields(_, _, _, _)
set_fields(h, self, items, k) ==
    IF k > Len(items) THEN Outcome(h, "none", PyNone)
    ELSE LET key == items[k][1]
             value == items[k][2]
         IN  IF key = "children" THEN set_fields(h, self, items, k + 1)
             ELSE IF key \notin Elems(Fields) THEN Outcome(h, "KeyError", PyNone)
             ELSE set_fields(SetAttr(h, self, key, value), self, items, k + 1)

\* SuperNode.from_node_dict.  The method has no return statement, so each
\* SuperNode().from_node_dict(child) of the list comprehension allocates a
\* node, loads it, and evaluates to None: load_children runs the
\* comprehension from child k on
RECURSIVE from_node_dict(_, _, _)
RECURSIVE load_children(_, _, _)
load_children(h, children, k) ==
    IF k > Len(children) THEN Outcome(h, "none", PyNone)
    ELSE LET h1 == Append(h, SuperNode(PyNone, PyNone, PyNone, PyNone, PyNone, PyNone))
             r == from_node_dict(h1, Len(h1), children[k])
         IN  IF r.err # "none" THEN r ELSE load_children(r.nodes, children, k + 1)

from_node_dict(h, self, dictionary) ==
    LET f == set_fields(h, self, dictionary.v, 1)
    IN  IF f.err # "none" THEN f
        ELSE IF ~HasKey(dictionary.v, "children") THEN Outcome(f.nodes, "KeyError", PyNone)
        ELSE LET children == Lookup(dictionary.v, "children").v
                 c == load_children(f.nodes, children, 1)
             IN  IF c.err # "none" THEN c
                 ELSE Outcome([c.nodes EXCEPT ![self].children =
                                                  [i \in 1..Len(children) |-> NoneChild]],
                              "none", PyNone)

\* SuperNode.__copy__
__copy__(h, self) ==
    LET h1 == Append(h, SuperNode(PyNone, PyNone, PyNone, PyNone, PyNone, PyNone))
        r == from_node_dict(h1, Len(h1), to_node_dict(h, self))
    IN  Outcome(r.nodes, r.err, IF r.err = "none" THEN Ref(Len(h1)) ELSE PyNone)

\* SuperNode.find_node: find_from is the loop over the children from child
\* k on
RECURSIVE find_node(_, _, _)
RECURSIVE find_from(_, _, _, _)
find_from(h, self, id, k) ==
    LET ch == h[self].children
    IN  IF k > Len(ch) THEN PyNone
        ELSE IF PyEq(h[ch[k]].id, id) THEN Ref(ch[k])
        ELSE IF Truthy(find_node(h, ch[k], id)) THEN Ref(ch[k])
        ELSE find_from(h, self, id, k + 1)

find_node(h, self, id) == find_from(h, self, id, 1)

\* SuperNode.find_nodes: find_nodes_from is the loop over the children from
\* child k on.  The loop `for key, value in other_attrs.items()' rebinds the
\* parameter value, so after the first child the value criterion is the
\* value of the last attribute criterion
RECURSIVE find_nodes(_, _, _, _, _, _)
RECURSIVE find_nodes_from(_, _, _, _, _, _, _)
find_nodes_from(h, self, name, value, function, other_attrs, k) ==
    LET ch == h[self].children
    IN  IF k > Len(ch) THEN << >>
        ELSE LET child == ch[k]
                 add_child ==
                    /\ ~(Truthy(name) /\ ~PyEq(h[child].name, name))
                    /\ ~(Truthy(value) /\ ~PyEq(h[child].value, value))
                    /\ ~(Truthy(function) /\ ~PyEq(h[child].function, function))
                    /\ \A i \in 1..Len(other_attrs) :
                          /\ HasKey(h[child].other_attrs, other_attrs[i][1])
                          /\ PyEq(other_attrs[i][2],
                                  Lookup(h[child].other_attrs, other_attrs[i][1]))
                 value1 == IF other_attrs = << >> THEN value
                           ELSE other_attrs[Len(other_attrs)][2]
             IN  (IF add_child THEN <<Ref(child)>> ELSE << >>)
                 \o find_nodes(h, child, name, value1, function, other_attrs)
                 \o find_nodes_from(h, self, name, value1, function, other_attrs, k + 1)

\* find_nodes that lists the matches of each level last to first
find_nodes_reversed(h, self, name, value, function, other_attrs) ==
    LET l == find_nodes_from(h, self, name, value, function, other_attrs, 1)
    IN  [i \in 1..Len(l) |-> l[Len(l) + 1 - i]]

find_nodes(h, self, name, value, function, other_attrs) ==
    find_nodes_from(h, self, name, value, function, other_attrs, 1)

\* SuperNode._rows_iter: the rows it yields, in order; rows_from is the loop
\* over the children from child k on
RECURSIVE _rows_iter(_, _, _, _)
RECURSIVE rows_from(_, _, _, _, _)
rows_from(h, self, row, attr, k) ==
    IF k > Len(h[self].children) THEN << >>
    ELSE _rows_iter(h, h[self].children[k], row, attr) \o rows_from(h, self, row, attr, k + 1)

_rows_iter(h, self, row, attr) ==
    LET row1 == IF ~Truthy(attr) THEN Append(row, Ref(self))
                ELSE IF attr.v \in Elems(Fields) THEN Append(row, Attr(h, self, attr.v))
                ELSE IF HasKey(h[self].other_attrs, attr.v)
                     THEN Append(row, Lookup(h[self].other_attrs, attr.v))
                     ELSE row
    IN  (IF ~has_children(h, self) THEN <<row1>> ELSE << >>) \o rows_from(h, self, row1, attr, 1)

\* to_list without the first element of each row, as to_df takes the rows
to_list_ignore_first(h, self, attr) ==
    LET rows == _rows_iter(h, self, << >>, attr)
    IN  [i \in 1..Len(rows) |-> IF rows[i] = << >> THEN << >> ELSE Tail(rows[i])]

\* SuperNode.to_list
to_list(h, self, attr) == _rows_iter(h, self, << >>, attr)

\* the characters of the keyword an extra attribute was passed under
KeyChars(key) ==
    CASE key = "colour" -> <<"c", "o", "l", "o", "u", "r">>
      [] key = "ab" -> <<"a", "b">>

\* attrs[k] = v on a dict kept as a sequence of <<key, value>> items
SetItem(d, k, v) ==
    IF HasKey(d, k) THEN [i \in 1..Len(d) |-> IF d[i][1] = k THEN <<k, v>> ELSE d[i]]
    ELSE Append(d, <<k, v>>)

\* the `for k, v in self.other_attrs' loop of get_attributes from item i on:
\* iterating the dict yields its keys, and unpacking a key into k, v takes
\* its two characters and raises ValueError for a key of any other length
RECURSIVE unpack_other_attrs(_, _, _)
unpack_other_attrs(attrs, other_attrs, i) ==
    IF i > Len(other_attrs) THEN Result("none", attrs)
    ELSE LET chars == KeyChars(other_attrs[i][1])
         IN  IF Len(chars) # 2 THEN Result("ValueError", PyNone)
             ELSE unpack_other_attrs(SetItem(attrs, chars[1], PyStr(<<chars[2]>>)),
                                     other_attrs, i + 1)

\* SuperNode.get_attributes: the items of the dict it returns
get_attributes(h, self, none_attrs) ==
    LET keys == SelectSeq(Fields, LAMBDA key : key # "other_attrs")
        attrs == [i \in 1..Len(keys) |-> <<keys[i], Attr(h, self, keys[i])>>]
        r == unpack_other_attrs(attrs, h[self].other_attrs, 1)
    IN  IF r.err # "none" \/ none_attrs THEN r
        ELSE Result("none", SelectSeq(r.ret, LAMBDA item : item[2] # PyNone))

\* what to_str writes for an attribute: the class name of a value, and the
\* text _short(attr) of any other attribute, kept as the object it is the
\* text of
Shown(attr_name, attr) ==
    IF attr_name = "value" THEN <<attr_name, [t |-> "class", v |-> attr.t]>>
    ELSE <<attr_name, [t |-> "short", v |-> attr]>>

\* SuperNode.to_str: the string it returns, kept as the entries of its first
\* line and the strings of the children that follow it; texts_from is the
\* loop over the children from child k on
RECURSIVE to_str(_, _)
RECURSIVE texts_from(_, _, _)
texts_from(h, self, k) ==
    IF k > Len(h[self].children) THEN Result("none", << >>)
    ELSE LET child_str == to_str(h, h[self].children[k])
             rest == texts_from(h, self, k + 1)
         IN  IF child_str.err # "none" THEN child_str
             ELSE IF rest.err # "none" THEN rest
             ELSE Result("none", <<child_str.ret>> \o rest.ret)

to_str(h, self) ==
    LET attrs == get_attributes(h, self, FALSE)
        listed == SelectSeq(attrs.ret, LAMBDA item : item[1] # "children")
        texts == texts_from(h, self, 1)
    IN  IF attrs.err # "none" THEN attrs
        ELSE IF texts.err # "none" THEN texts
        ELSE Result("none", [t |-> "text",
                             v |-> [summary |-> [i \in 1..Len(listed) |->
                                                    Shown(listed[i][1], listed[i][2])],
                                    children |-> texts.ret]])

----------------------------------------------------------------------------
(* The tree specification: a program that constructs a root, grows a tree  *)
(* under it with self.append(SuperNode(..)), and ends with one call on a   *)
(* node of the tree: a search, a listing, a copy, or the loading of a      *)
(* dictionary.                                                             *)

\* a non-empty str that names an attribute
AttrName(key) == [t |-> "attribute", v |-> key]

\* the nodes the program constructs: SuperNode(), SuperNode(name="a",
\* value=0, id=1) and SuperNode(value=1, function=f, colour=2)
TreeKinds ==
    {SuperNode(PyNone, PyNone, PyNone, PyNone, PyNone, PyNone),
     SuperNode(NameA, PyInt(0), PyInt(1), PyNone, PyNone, PyNone),
     [SuperNode(PyNone, PyInt(1), PyNone, PyFunction(KeyV), PyNone, PyNone)
         EXCEPT !.other_attrs = << <<"colour", PyInt(2)>> >>]}

\* the ids passed to find_node
FindIds == {PyInt(1), PyInt(2)}

\* the <<name, value, function, other_attrs>> criteria passed to find_nodes
Criteria ==
    {<<PyNone, PyNone, PyNone, << >> >>,
     <<NameA, PyNone, PyNone, << >> >>,
     <<PyNone, PyInt(0), PyNone, << >> >>,
     <<PyNone, PyInt(1), PyNone, << >> >>,
     <<PyNone, PyNone, PyFunction(KeyV), << >> >>,
     <<PyNone, PyNone, PyNone, << <<"colour", PyInt(2)>> >> >>,
     <<PyNone, PyInt(1), PyNone, << <<"colour", PyInt(2)>> >> >>}

\* the attr arguments passed to to_list
ListAttrs == {PyNone, AttrName("name"), AttrName("colour")}

\* the dictionaries passed to from_node_dict: a well-formed one, and ones
\* with the unknown key "colour" first, between known keys, after
\* "children", and inside a child
NodeDicts ==
    LET name == <<"name", NameB>>
        colour == <<"colour", PyInt(1)>>
        children == <<"children", PyList(<< >>)>>
    IN  {PyDict(<<name, children>>),
         PyDict(<<colour, name, children>>),
         PyDict(<<name, colour, children>>),
         PyDict(<<name, children, colour>>),
         PyDict(<<name, <<"children", PyList(<<PyDict(<<colour, children>>)>>)>> >>)}

\* the record of the last call of a method on receiver self with arguments
\* args
QueryCall(op, self, args, h, out) ==
    [op |-> op, err |-> out.err, ret |-> out.ret, dup |-> FALSE, kept |-> out.nodes = h,
     self |-> self, kwargs |-> args]

TreeInit ==
    /\ \E kind \in TreeKinds : nodes = <<kind>>
    /\ last = Call("SuperNode", FALSE, << >>, Outcome(<< >>, "none", PyNone))
    /\ pc = "tree"

\* self.append(SuperNode(..)); a node that was rejected is dropped
Grow(self, kind) ==
    /\ pc = "tree"
    /\ Len(nodes) < MaxTreeNodes
    /\ LET h == Append(nodes, kind)
           out == append(h, self, Ref(Len(h)))
       IN  /\ nodes' = IF out.err = "none" THEN out.nodes ELSE nodes
           /\ last' = Call("append", Dup(h, self, Ref(Len(h))), h, out)
    /\ UNCHANGED pc

\* self.find_node(id)
DoFindNode(self, id) ==
    /\ pc = "tree"
    /\ last' = QueryCall("find_node", self, <<id>>, nodes,
                         Outcome(nodes, "none", find_node(nodes, self, id)))
    /\ pc' = "done"
    /\ UNCHANGED nodes

\* self.find_nodes(name=c[1], value=c[2], function=c[3], **c[4])
DoFindNodes(self, c) ==
    /\ pc = "tree"
    /\ last' = QueryCall("find_nodes", self, c, nodes,
                         Outcome(nodes, "none",
                                 PyList(find_nodes(nodes, self, c[1], c[2], c[3], c[4]))))
    /\ pc' = "done"
    /\ UNCHANGED nodes

\* self.to_list(attr)
DoToList(self, attr) ==
    /\ pc = "tree"
    /\ LET rows == to_list(nodes, self, attr)
       IN  last' = QueryCall("to_list", self, <<attr>>, nodes,
                             Outcome(nodes, "none",
                                     PyList([i \in 1..Len(rows) |-> PyList(rows[i])])))
    /\ pc' = "done"
    /\ UNCHANGED nodes

\* copy(self)
DoCopy(self) ==
    /\ pc = "tree"
    /\ LET out == __copy__(nodes, self)
       IN  /\ nodes' = out.nodes
           /\ last' = QueryCall("__copy__", self, << >>, nodes, out)
    /\ pc' = "done"

\* self.from_node_dict(dictionary)
DoFromNodeDict(self, dictionary) ==
    /\ pc = "tree"
    /\ LET out == from_node_dict(nodes, self, dictionary)
       IN  /\ nodes' = out.nodes
           /\ last' = QueryCall("from_node_dict", self, <<dictionary>>, nodes, out)
    /\ pc' = "done"

TreeNext ==
    \/ \E self \in 1..Len(nodes), kind \in TreeKinds : Grow(self, kind)
    \/ \E self \in 1..Len(nodes), id \in FindIds : DoFindNode(self, id)
    \/ \E self \in 1..Len(nodes), c \in Criteria : DoFindNodes(self, c)
    \/ \E self \in 1..Len(nodes), attr \in ListAttrs : DoToList(self, attr)
    \/ \E self \in 1..Len(nodes) : DoCopy(self)
    \/ \E self \in 1..Len(nodes), dictionary \in NodeDicts : DoFromNodeDict(self, dictionary)

SpecTree == TreeInit /\ [][TreeNext]_vars

----------------------------------------------------------------------------
(* The parsing specification: a program that makes one InEquality from a   *)
(* string of blanks, letters and operator characters.                      *)

\* the characters of the strings
ParseChars == {" ", "x", ">"}

\* the strings of at most MaxLen characters
ParseStrings == UNION {[1..n -> ParseChars] : n \in 0..MaxLen}

ParseInit ==
    /\ nodes = << >>
    /\ last = Call("SuperNode", FALSE, << >>, Outcome(<< >>, "none", PyNone))
    /\ pc = "parse"

\* InEquality(inequality)
Parse(inequality) ==
    /\ pc = "parse"
    /\ LET out == InEquality(inequality, TRUE)
       IN  last' = QueryCall("InEquality", 0, <<PyStr(inequality)>>, nodes,
                             Outcome(nodes, out.err, out.ret))
    /\ pc' = "done"
    /\ UNCHANGED nodes

ParseNext == \E inequality \in ParseStrings : Parse(inequality)

SpecParse == ParseInit /\ [][ParseNext]_vars

----------------------------------------------------------------------------
(* The evaluation specification: a program that makes two InEquality       *)
(* instances from one string and calls the first one, any number of times, *)
(* with keyword arguments; the second instance is never called.  The heap  *)
(* `nodes' holds the two instances.                                        *)

\* the operand tokens: x, y, 1, -1, 10, x[0], y[0], x[1][0], ax[0]
EvalTokens ==
    {<<"x">>, <<"y">>, <<"1">>, <<"-", "1">>, <<"1", "0">>,
     <<"x", "[", "0", "]">>, <<"y", "[", "0", "]">>,
     <<"x", "[", "1", "]", "[", "0", "]">>,
     <<"a", "x", "[", "0", "]">>}

\* the strings `left op right'
EvalStrings ==
    {l \o <<" ">> \o m \o <<" ">> \o r : l \in EvalTokens, m \in operators, r \in EvalTokens}

\* the list [1, [10]]
NestedList == PyList(<<PyInt(1), PyList(<<PyInt(10)>>)>>)

\* the keyword arguments of the calls, in the order they are passed
EvalKwargs ==
    LET x == <<"x">>
        y == <<"y">>
        ax == <<"a", "x">>
    IN  {<< >>,
         << <<x, PyInt(-1)>> >>,
         << <<x, PyInt(1)>> >>,
         << <<x, PyInt(10)>>, <<y, PyInt(1)>> >>,
         << <<x, PyInt(1)>>, <<y, PyInt(10)>> >>,
         << <<x, PyStr(<<"1", "0">>)>> >>,
         << <<x, NestedList>>, <<y, PyList(<<PyInt(1)>>)>> >>,
         << <<x, PyInt(10)>>, <<ax, PyList(<<PyInt(1)>>)>> >>,
         << <<ax, PyList(<<PyInt(1)>>)>>, <<x, PyInt(10)>> >>}

EvalInit ==
    /\ \E inequality \in EvalStrings, strings_to_numbers \in BOOLEAN :
          nodes = <<InEquality(inequality, strings_to_numbers).ret,
                    InEquality(inequality, strings_to_numbers).ret>>
    /\ last = Call("SuperNode", FALSE, << >>, Outcome(<< >>, "none", PyNone))
    /\ pc = "eval"

\* the first instance called with **kwargs
Evaluate(kwargs) ==
    /\ pc = "eval"
    /\ nodes' = [nodes EXCEPT ![1] = InEquality_after_call(@, kwargs)]
    /\ LET out == InEquality_call(nodes[1], kwargs)
       IN  last' = QueryCall("__call__", 1, kwargs, nodes, Outcome(nodes', out.err, out.ret))
    /\ UNCHANGED pc

EvalNext == \E kwargs \in EvalKwargs : Evaluate(kwargs)

SpecEval == EvalInit /\ [][EvalNext]_vars

----------------------------------------------------------------------------
(* The rendering specification: a program that constructs a root, grows a  *)
(* tree under it with self.append(SuperNode(..)), and ends by rendering a  *)
(* node of the tree to text.                                               *)

\* the nodes the program constructs: SuperNode(), SuperNode(name="a",
\* value=0, id=1), SuperNode(colour=2), SuperNode(ab=1), SuperNode(colour=None)
RenderKinds ==
    {SuperNode(PyNone, PyNone, PyNone, PyNone, PyNone, PyNone),
     SuperNode(NameA, PyInt(0), PyInt(1), PyNone, PyNone, PyNone),
     [SuperNode(PyNone, PyNone, PyNone, PyNone, PyNone, PyNone)
         EXCEPT !.other_attrs = << <<"colour", PyInt(2)>> >>],
     [SuperNode(PyNone, PyNone, PyNone, PyNone, PyNone, PyNone)
         EXCEPT !.other_attrs = << <<"ab", PyInt(1)>> >>],
     [SuperNode(PyNone, PyNone, PyNone, PyNone, PyNone, PyNone)
         EXCEPT !.other_attrs = << <<"colour", PyNone>> >>]}

RenderInit ==
    /\ \E kind \in RenderKinds : nodes = <<kind>>
    /\ last = Call("SuperNode", FALSE, << >>, Outcome(<< >>, "none", PyNone))
    /\ pc = "tree"

\* self.append(SuperNode(..)); a node that was rejected is dropped
RenderGrow(self, kind) ==
    /\ pc = "tree"
    /\ Len(nodes) < MaxRenderNodes
    /\ LET h == Append(nodes, kind)
           out == append(h, self, Ref(Len(h)))
       IN  /\ nodes' = IF out.err = "none" THEN out.nodes ELSE nodes
           /\ last' = Call("append", Dup(h, self, Ref(Len(h))), h, out)
    /\ UNCHANGED pc

\* self.to_str()
DoToStr(self) ==
    /\ pc = "tree"
    /\ LET out == to_str(nodes, self)
       IN  last' = QueryCall("to_str", self, << >>, nodes, Outcome(nodes, out.err, out.ret))
    /\ pc' = "done"
    /\ UNCHANGED nodes

RenderNext ==
    \/ \E self \in 1..Len(nodes), kind \in RenderKinds : RenderGrow(self, kind)
    \/ \E self \in 1..Len(nodes) : DoToStr(self)

SpecRender == RenderInit /\ [][RenderNext]_vars

----------------------------------------------------------------------------
(* The sharing specification: a program that constructs two standalone     *)
(* nodes and calls the child-management methods on any node it holds with  *)
(* any node it holds as the argument, the receiver itself included.        *)

\* references to all nodes of heap h
AllRefs(h) == {Ref(i) : i \in 1..Len(h)}

CycleInit ==
    /\ nodes = <<SuperNode(PyNone, PyNone, PyNone, PyNone, PyNone, PyNone),
                 SuperNode(PyNone, PyNone, PyNone, PyNone, PyNone, PyNone)>>
    /\ last = Call("SuperNode", FALSE, << >>, Outcome(<< >>, "none", PyNone))
    /\ pc = "main"

CycleNext ==
    \/ \E self \in 1..Len(nodes), x \in AllRefs(nodes) : DoAppend(self, x)
    \/ \E self \in 1..Len(nodes), index \in Indices, x \in AllRefs(nodes) :
          DoInsert(self, index, x)
    \/ \E self \in 1..Len(nodes), name \in Names, x \in AllRefs(nodes) :
          DoSetitem(self, name, x)
    \/ \E self \in 1..Len(nodes), num \in 0..MaxNum : DoSplit(self, num, PyNone, PyNone)

SpecCycle == CycleInit /\ [][CycleNext]_vars

----------------------------------------------------------------------------
(* Routing: the claims checked under SpecDecision and SpecRoute *)

\* the value of the leaf the comparisons x0 > 1 and x1 = 0 select below the
\* node whose value is v: 3 and 4 are the grandchildren, 2 is child-2, 1 is
\* child-1 and None the root
SelectedLeaf(v, x0, x1) ==
    IF v = PyNone THEN (IF x0 > 1 THEN (IF x1 = 0 THEN PyInt(3) ELSE PyInt(4)) ELSE PyInt(2))
    ELSE IF v = PyInt(1) THEN (IF x1 = 0 THEN PyInt(3) ELSE PyInt(4))
    ELSE v

\* C1: on the tree of the test, routing started on any node with x bound to
\* [x0, x1] returns, without an error, the leaf that x0 > 1 and x1 = 0
\* select below that node, and that leaf has no function
C1_DecisionRouting ==
    pc = "done" =>
        LET x == last.kwargs[1][2].v
        IN  /\ last.err = "none"
            /\ last.ret.t = "SuperNode"
            /\ nodes[last.ret.v].value = SelectedLeaf(nodes[last.self].value, x[1].v, x[2].v)
            /\ nodes[last.ret.v].function = PyNone

\* routing started on the root went through both functions to grandchild-1
C1_Witness ==
    /\ pc = "done"
    /\ last.self = 1
    /\ last.kwargs[1][2] = PyList(<<PyInt(2), PyInt(0)>>)
    /\ last.err = "none"
    /\ nodes[last.ret.v].name = PyStr(Str_grandchild_1)

\* the branch name the object v returned by a node's function selects
SelectedName(h, n, v) ==
    IF Truthy(v) THEN h[n].child_name_if_true ELSE h[n].child_name_if_false

\* routing cannot go on from node n when its function returns v
Terminal(h, n, v) ==
    \/ h[n].function = PyNone
    \/ SelectedName(h, n, v) = PyNone
    \/ ~HasChildNamed(h, n, SelectedName(h, n, v))

C2_WitnessNoFunction ==
    /\ last.op = "run_as_binary_tree"
    /\ nodes[last.self].function = PyNone
    /\ HasChildNamed(nodes, last.self, nodes[last.self].child_name_if_true)
    /\ HasChildNamed(nodes, last.self, nodes[last.self].child_name_if_false)
    /\ last.ret = Ref(last.self)

\* C3: when the function of the node the router is run on is a callable, a
\* true result sends the routing into the child named child_name_if_true
\* and a false result (False, 0, None, an empty value) into the child named
\* child_name_if_false, provided that child exists
C3_TruthyFalsyBranches ==
    ( /\ last.op = "run_as_binary_tree"
      /\ nodes[last.self].function.t = "function"
      /\ ~Terminal(nodes, last.self, last.kwargs[1][2]) )
    => LET name == SelectedName(nodes, last.self, last.kwargs[1][2])
           child == CHOOSE c \in 1..Len(nodes) :
                       \E i \in 1..Len(nodes[last.self].children) :
                           /\ nodes[last.self].children[i] = c
                           /\ nodes[c].name = name
       IN  /\ last.err = "none"
           /\ last.ret = run_as_binary_tree(nodes, child, last.kwargs).ret

----------------------------------------------------------------------------
(* Child management: the claims checked under Spec *)

\* the arguments a child-adding call is made with
Args == Refs(nodes) \cup RawValues

\* C4: when the receiver already has a child with a non-null name n, append
\* and insert of a node named n raise the duplicate-name ValueError and the
\* receiver's children sequence is the same sequence of the same nodes
C4_DuplicateNameRejected ==
    (last.op \in {"append", "insert"} /\ last.dup)
        => (last.err = "ValueError" /\ last.kept)

\* an append was refused because of a duplicate name
C4_Witness == last.op = "append" /\ last.dup /\ last.err = "ValueError"

\* an insert was refused because of a duplicate name
C4_WitnessInsert == last.op = "insert" /\ last.dup /\ last.err = "ValueError"

\* C5: no two children of one parent have the same non-null name
C5_SiblingNamesUnique ==
    \A p \in 1..Len(nodes) :
        \A i, j \in 1..Len(nodes[p].children) :
            LET ci == nodes[p].children[i]
                cj == nodes[p].children[j]
            IN  (i < j /\ nodes[ci].name # PyNone) => nodes[ci].name # nodes[cj].name

\* the position Python's list.insert(index, _) gives the new element in a
\* list of length n, for index >= 0
InsertPos(index, n) == IF index > n THEN n + 1 ELSE index + 1

\* C6: insert of a node whose name collides with no child returns and leaves
\* that node at position index (at the end for an index beyond the length),
\* the later children shifted right by one
C6_InsertPlacesAtIndex ==
    [][\A self \in Receivers, index \in Indices, x \in Args :
          ( /\ DoInsert(self, index, x)
            /\ ~Dup(nodes, self, x) )
          => /\ last'.err = "none"
             /\ LET new == IF x.t = "SuperNode" THEN x.v ELSE Len(nodes) + 1
                IN  nodes'[self].children =
                       InsertAt(nodes[self].children,
                                InsertPos(index, Len(nodes[self].children)), new)]_vars

\* C7: self[name] = x is an upsert: afterwards exactly one child is named
\* name, it is the last child and is x itself (a new node of value x when x
\* is no node), the other previous children keep their relative order, and
\* the number of children grows by one exactly when no child was named name
C7_SetitemIsUpsert ==
    [][\A self \in Receivers, name \in Names, x \in Args :
          DoSetitem(self, name, x)
          => LET old == nodes[self].children
                 ch == nodes'[self].children
                 new == IF x.t = "SuperNode" THEN x.v ELSE Len(nodes) + 1
                 others == SelectSeq(old, LAMBDA c : nodes[c].name # name /\ c # new)
             IN  /\ Cardinality({i \in 1..Len(ch) : nodes'[ch[i]].name = name}) = 1
                 /\ Len(ch) > 0
                 /\ ch[Len(ch)] = new
                 /\ nodes'[new].name = name
                 /\ x.t # "SuperNode" => nodes'[new].value = x
                 /\ SubSeq(ch, 1, Len(ch) - 1) = others
                 /\ Len(ch) = IF HasChildNamed(nodes, self, name) THEN Len(old) ELSE Len(old) + 1]_vars

\* C8: self[name] = x never raises the duplicate-name error, and no call
\* raises after it has removed a child or renamed a node
C8_SetitemNeverFails ==
    [][/\ \A self \in Receivers, name \in Names, x \in Args :
            DoSetitem(self, name, x) => last'.err = "none"
       /\ last'.err # "none" =>
            \A n \in 1..Len(nodes) :
                /\ nodes'[n].children = nodes[n].children
                /\ nodes'[n].name = nodes[n].name]_vars

\* C9: split(num=k, names=L) with len(L) = k returns the k new nodes, which
\* are childless, carry the names of L in order and follow the previous
\* children at the end of the children list
C9_SplitAppendsNamed ==
    [][\A self \in Receivers, num \in 0..MaxNum, a \in SplitArgs :
          ( /\ DoSplit(self, num, a[1], a[2])
            /\ a[1].t = "list" /\ Len(a[1].v) = num /\ a[2] = PyNone )
          => /\ last'.err = "none"
             /\ Len(nodes') = Len(nodes) + num
             /\ nodes'[self].children =
                   nodes[self].children \o [i \in 1..num |-> Len(nodes) + i]
             /\ \A i \in 1..num :
                   /\ nodes'[Len(nodes) + i].name = a[1].v[i]
                   /\ nodes'[Len(nodes) + i].children = << >>
             /\ last'.ret = PyList([i \in 1..num |-> Ref(Len(nodes) + i)])]_vars

\* C10: split with a supplied list whose length is not num raises the
\* length-mismatch ValueError and leaves the children unchanged
C10_SplitLengthMismatch ==
    [][\A self \in Receivers, num \in 0..MaxNum, a \in SplitArgs :
          ( /\ DoSplit(self, num, a[1], a[2])
            /\ \E k \in 1..2 : a[k].t = "list" /\ Len(a[k].v) # num )
          => /\ last'.err = "ValueError"
             /\ nodes'[self].children = nodes[self].children]_vars

----------------------------------------------------------------------------
(* Serialisation, search and path listing: the claims checked under        *)
(* SpecTree                                                                *)

\* the proper descendants of node n of heap h, in depth-first pre-order;
\* DescendantsFrom lists the subtrees of the children of n from child k on
RECURSIVE Descendants(_, _)
RECURSIVE DescendantsFrom(_, _, _)
DescendantsFrom(h, n, k) ==
    IF k > Len(h[n].children) THEN << >>
    ELSE <<h[n].children[k]>> \o Descendants(h, h[n].children[k])
         \o DescendantsFrom(h, n, k + 1)

Descendants(h, n) == DescendantsFrom(h, n, 1)

\* the position of e in a sequence s in which it occurs
Pos(s, e) == CHOOSE j \in 1..Len(s) : s[j] = e

\* the parent of a node n that is a child
ParentOf(h, n) == CHOOSE p \in 1..Len(h) : n \in Elems(h[p].children)

\* the nodes from node top down to its descendant n
RECURSIVE PathTo(_, _, _)
PathTo(h, top, n) == IF n = top THEN <<top>> ELSE Append(PathTo(h, top, ParentOf(h, n)), n)

\* the leaves of the subtree of n, in depth-first order
Leaves(h, n) == SelectSeq(<<n>> \o Descendants(h, n), LAMBDA d : h[d].children = << >>)

\* nodes a and b of heap h carry the same attributes, and their children
\* are nodes that do so too, in the same order, at every depth
RECURSIVE SameTree(_, _, _)
SameTree(h, a, b) ==
    /\ \A key \in Elems(Fields) \ {"children"} : h[a][key] = h[b][key]
    /\ Len(h[a].children) = Len(h[b].children)
    /\ \A i \in 1..Len(h[a].children) :
          /\ h[b].children[i] # NoneChild
          /\ SameTree(h, h[a].children[i], h[b].children[i])

\* C11: a copy of a node, made by loading the node's to_node_dict() with
\* from_node_dict, is made without an error and carries the same name,
\* value, id, function, branch names and extra attributes, and its children
\* are nodes in the same order with the same attributes at every depth
C11_RoundTrip ==
    last.op = "__copy__" =>
        (last.err = "none" /\ SameTree(nodes, last.self, last.ret.v))

\* C12: from_node_dict given a dictionary with a key that is no attribute of
\* a node raises KeyError and leaves the heap, the receiver with it, as it
\* was before the call
C12_UnknownFieldRejected ==
    ( /\ last.op = "from_node_dict"
      /\ \E i \in 1..Len(last.kwargs[1].v) : last.kwargs[1].v[i][1] \notin Elems(Fields) )
    => (last.err = "KeyError" /\ last.kept)

\* C13: find_node(id) returns the first proper descendant of the receiver,
\* in depth-first pre-order, whose id equals the argument, and None when
\* there is none
C13_FindNodeFirstPreorder ==
    last.op = "find_node" =>
        LET pre == Descendants(nodes, last.self)
            hits == {i \in 1..Len(pre) : PyEq(nodes[pre[i]].id, last.kwargs[1])}
        IN  last.ret = IF hits = {} THEN PyNone ELSE Ref(pre[Min(hits)])

Matches(h, d, c) ==
    /\ c[1].t # "NoneType" => PyEq(h[d].name, c[1])
    /\ c[2].t # "NoneType" => PyEq(h[d].value, c[2])
    /\ c[3].t # "NoneType" => PyEq(h[d].function, c[3])
    /\ \A i \in 1..Len(c[4]) :
          /\ HasKey(h[d].other_attrs, c[4][i][1])
          /\ PyEq(Lookup(h[d].other_attrs, c[4][i][1]), c[4][i][2])

\* C15: the nodes find_nodes returns are exactly the proper descendants of
\* the receiver that satisfy every supplied non-null criterion
C15_FindNodesExact ==
    last.op = "find_nodes" =>
        LET pre == Descendants(nodes, last.self)
        IN  Elems(last.ret.v) = {Ref(d) : d \in {e \in Elems(pre) : Matches(nodes, e, last.kwargs)}}

\* node n has the attribute attr names (every node when attr is None)
HasAttr(h, n, attr) ==
    \/ attr.t = "NoneType"
    \/ attr.v \in Elems(Fields)
    \/ HasKey(h[n].other_attrs, attr.v)

\* the value of the attribute attr of node n, the node itself when attr is
\* None
AttrValue(h, n, attr) ==
    IF attr.t = "NoneType" THEN Ref(n)
    ELSE IF attr.v \in Elems(Fields) THEN Attr(h, n, attr.v)
    ELSE Lookup(h[n].other_attrs, attr.v)

\* C16: to_list(attr) returns one row per leaf of the receiver's subtree,
\* in depth-first leaf order, and each row has one entry per node of the
\* path from the receiver to its leaf, the entry of a node that has the
\* attribute being the attribute's value
C16_ToListRows ==
    last.op = "to_list" =>
        LET leaves == Leaves(nodes, last.self)
            rows == last.ret.v
        IN  /\ Len(rows) = Len(leaves)
            /\ \A i \in 1..Len(leaves) :
                  LET path == PathTo(nodes, last.self, leaves[i])
                  IN  /\ Len(rows[i].v) = Len(path)
                      /\ \A j \in 1..Len(path) :
                            HasAttr(nodes, path[j], last.kwargs[1])
                                => rows[i].v[j] = AttrValue(nodes, path[j], last.kwargs[1])

\* the receiver of the last call has children, and they are all leaves
ChildrenAreLeaves(h, n) == \A c \in Elems(h[n].children) : h[c].children = << >>

\* C17 as stated: for to_list() on a node that has children, the length of
\* each row is the depth of its leaf below the receiver, and the first
\* elements of the rows are the receiver's children when these are leaves
C17_RowLengthIsDepth ==
    (last.op = "to_list" /\ last.kwargs[1] = PyNone /\ has_children(nodes, last.self)) =>
        LET leaves == Leaves(nodes, last.self)
            rows == last.ret.v
        IN  /\ \A i \in 1..Len(rows) :
                  Len(rows[i].v) = Len(PathTo(nodes, last.self, leaves[i])) - 1
            /\ ChildrenAreLeaves(nodes, last.self)
                  => [i \in 1..Len(rows) |-> rows[i].v[1]]
                        = [i \in 1..Len(nodes[last.self].children) |->
                              Ref(nodes[last.self].children[i])]

\* C17 (amended): for to_list() on a node that has children, every row
\* starts with the receiver, the length of each row is the depth of its
\* leaf below the receiver plus one, and the second elements of the rows
\* are the receiver's children when these are leaves
C17_RowLengthIsDepthPlusOne ==
    (last.op = "to_list" /\ last.kwargs[1] = PyNone /\ has_children(nodes, last.self)) =>
        LET leaves == Leaves(nodes, last.self)
            rows == last.ret.v
        IN  /\ Len(rows) = Len(leaves)
            /\ \A i \in 1..Len(rows) :
                  /\ Len(rows[i].v) = Len(PathTo(nodes, last.self, leaves[i]))
                  /\ rows[i].v[1] = Ref(last.self)
            /\ ChildrenAreLeaves(nodes, last.self)
                  => [i \in 1..Len(rows) |-> rows[i].v[2]]
                        = [i \in 1..Len(nodes[last.self].children) |->
                              Ref(nodes[last.self].children[i])]

\* to_list() listed a receiver with two children, one of them with a child
\* of its own: a row of three nodes and a row of two
C17_Witness ==
    /\ last.op = "to_list"
    /\ last.kwargs[1] = PyNone
    /\ Len(nodes[last.self].children) = 2
    /\ Len(last.ret.v) = 2
    /\ Len(last.ret.v[1].v) = 3
    /\ Len(last.ret.v[2].v) = 2

----------------------------------------------------------------------------
(* Ownership and raw values: the claims checked under Spec *)

\* the places <<parent, position>> of heap h at which node n is a child
Places(h, n) ==
    {pl \in (1..Len(h)) \X (1..MaxEdges + 1) :
        pl[2] <= Len(h[pl[1]].children) /\ h[pl[1]].children[pl[2]] = n}

\* C18: every node occurs at most once among all the children lists of the
\* heap
C18_ExclusiveOwnership ==
    \A n \in 1..Len(nodes) : Cardinality(Places(nodes, n)) <= 1

\* C19: in every reachable heap, append of an object that is not a node
\* returns without an error, adds one new node as the last child of the
\* receiver, with the object as value and no name, keeps the previous
\* children in place, and changes no other node
C19_AppendRawSucceeds ==
    \A self \in Receivers, x \in RawValues :
        LET out == append(nodes, self, x)
            old == nodes[self].children
            new == out.nodes[self].children
        IN  /\ out.err = "none"
            /\ Len(out.nodes) = Len(nodes) + 1
            /\ new = Append(old, Len(nodes) + 1)
            /\ out.nodes[Len(nodes) + 1].value = x
            /\ out.nodes[Len(nodes) + 1].name = PyNone
            /\ out.nodes[Len(nodes) + 1].children = << >>
            /\ \A k \in (1..Len(nodes)) \ {self} : out.nodes[k] = nodes[k]

\* append has just added a wrapped object as the third unnamed child of a
\* receiver
C19_Witness ==
    /\ last.op = "append"
    /\ last.err = "none"
    /\ \E self \in Receivers :
          LET ch == nodes[self].children
          IN  /\ Len(ch) = 3
              /\ \A i \in 1..3 : nodes[ch[i]].name = PyNone
              /\ nodes[ch[3]].value \in RawValues

----------------------------------------------------------------------------
(* Parsing: the claims checked under SpecParse *)

\* the positions of string s at which a token starts: a non-blank character
\* that is the first character or follows a blank
TokenStarts(s) == {i \in 1..Len(s) : s[i] # " " /\ (i = 1 \/ s[i - 1] = " ")}

\* the token of s that starts at position i
TokenAt(s, i) ==
    SubSeq(s, i, Max({j \in i..Len(s) : \A m \in i..j : s[m] # " "}))

\* C20: InEquality(s) raises ValueError unless s has exactly three
\* blank-separated tokens, and for three tokens left, middle and right are
\* the tokens in order
C20_ThreeTokens ==
    last.op = "InEquality" =>
        LET s == last.kwargs[1].v
            starts == TokenStarts(s)
        IN  IF Cardinality(starts) # 3 THEN last.err = "ValueError"
            ELSE /\ last.err = "none"
                 /\ last.ret.left = TokenAt(s, Min(starts))
                 /\ last.ret.middle = TokenAt(s, CHOOSE i \in starts : i \notin {Min(starts), Max(starts)})
                 /\ last.ret.right = TokenAt(s, Max(starts))

\* the string " x  > x", with a leading blank and two blanks in a row, was
\* parsed into x, > and x
C20_Witness ==
    /\ last.op = "InEquality"
    /\ last.kwargs[1].v = <<" ", "x", " ", " ", ">", " ", "x">>
    /\ last.err = "none"
    /\ last.ret.left = <<"x">>
    /\ last.ret.middle = <<">">>
    /\ last.ret.right = <<"x">>

\* the string "x x x x" of four tokens was rejected
C20_WitnessFour ==
    /\ last.op = "InEquality"
    /\ last.kwargs[1].v = <<"x", " ", "x", " ", "x", " ", "x">>
    /\ last.err = "ValueError"

----------------------------------------------------------------------------
(* Routing: read-only, inside the subtree *)

\* target is n, or is reached from n by at most fuel steps from a node to a
\* child of it whose name is the node's child_name_if_true or
\* child_name_if_false
RECURSIVE BranchChain(_, _, _, _)
BranchChain(h, n, target, fuel) ==
    \/ n = target
    \/ /\ fuel > 0
       /\ \E k \in 1..Len(h[n].children) :
             LET c == h[n].children[k]
             IN  /\ \/ PyEq(h[c].name, h[n].child_name_if_true)
                    \/ PyEq(h[c].name, h[n].child_name_if_false)
                 /\ BranchChain(h, c, target, fuel - 1)

\* C27: run_as_binary_tree changes no node, and the node it returns is the
\* start node or a descendant of it that a chain of steps reaches, each step
\* going from a node to the child named by one of its two branch names
C27_RoutingReadOnlyInSubtree ==
    /\ [][last'.op = "run_as_binary_tree" => nodes' = nodes]_vars
    /\ [](last.op = "run_as_binary_tree" =>
            /\ last.kept
            /\ last.err = "none" =>
                  /\ last.ret.t = "SuperNode"
                  /\ BranchChain(nodes, last.self, last.ret.v, Len(nodes)))

\* the router went two steps down from the node it was run on
C27_Witness ==
    /\ last.op = "run_as_binary_tree"
    /\ last.err = "none"
    /\ last.ret # Ref(last.self)
    /\ last.ret.v \notin Elems(nodes[last.self].children)
    /\ BranchChain(nodes, last.self, last.ret.v, Len(nodes))

----------------------------------------------------------------------------
(* Rendering *)

\* C26: rendering a node to text raises nothing, and the first line of the
\* text lists the node's name and id and the type of its value, when they
\* are not None, and every extra attribute whose value is not None
C26_SummaryListsAttributes ==
    last.op = "to_str" =>
        /\ last.err = "none"
        /\ LET n == nodes[last.self]
               summary == Elems(last.ret.v.summary)
           IN  /\ n.name # PyNone => Shown("name", n.name) \in summary
               /\ n.id # PyNone => Shown("id", n.id) \in summary
               /\ n.value # PyNone => Shown("value", n.value) \in summary
               /\ \A i \in 1..Len(n.other_attrs) :
                     n.other_attrs[i][2] # PyNone =>
                         Shown(n.other_attrs[i][1], n.other_attrs[i][2]) \in summary

----------------------------------------------------------------------------
(* Acyclicity *)

\* the nodes reached from the nodes of S by steps from a node to a child
RECURSIVE Closure(_, _)
Closure(h, S) ==
    LET T == S \cup UNION {Elems(h[i].children) : i \in S}
    IN  IF T = S THEN S ELSE Closure(h, T)

\* node n of heap h is its own child or descendant
OnCycle(h, n) == n \in Closure(h, Elems(h[n].children))

\* C28: no node of a structure built from standalone nodes by append,
\* insert, index-assignment and split is its own child or descendant
C28_Acyclic == \A n \in 1..Len(nodes) : ~OnCycle(nodes, n)

----------------------------------------------------------------------------
(* Evaluation: the claims checked under SpecEval.  nodes[2] is the         *)
(* instance as it was constructed, last.kwargs the bindings of the call.   *)

\* the token without its bracket suffixes
BareName(tok) ==
    LET opens == {k \in 1..Len(tok) : tok[k] = "["}
    IN  IF opens = {} THEN tok ELSE SubSeq(tok, 1, Min(opens) - 1)

\* the index expressions of the bracket suffixes of tok from position i on,
\* from left to right
RECURSIVE SuffixesFrom(_, _)
SuffixesFrom(tok, i) ==
    IF i > Len(tok) \/ tok[i] # "[" \/ ClosersFrom(tok, i + 1) = {} THEN << >>
    ELSE LET m == Min(ClosersFrom(tok, i + 1))
         IN  <<SubSeq(tok, i + 1, m - 1)>> \o SuffixesFrom(tok, m + 1)

Suffixes(tok) == SuffixesFrom(tok, Len(BareName(tok)) + 1)

\* tok is an integer literal, non-negative or with a leading minus sign
IsIntLit(tok) ==
    \/ _is_int(tok)
    \/ Len(tok) > 1 /\ tok[1] = "-" /\ _is_int(Tail(tok))

\* the integer an integer literal denotes
LitInt(tok) == IF tok[1] = "-" THEN 0 - int_of(Tail(tok)) ELSE int_of(tok)

\* the keys of the bindings
Keys(kwargs) == {kwargs[i][1] : i \in 1..Len(kwargs)}

\* the comparison op of the integers a and b
Cmp(op, a, b) ==
    CASE op = <<"<">> -> a < b
      [] op = <<"<", "=">> -> a <= b
      [] op = <<"=", "=">> -> a = b
      [] op = <<"!", "=">> -> a # b
      [] op = <<">", "=">> -> a >= b
      [] op = <<">">> -> a > b

\* the integer an operand stands for: a literal's value or the integer bound
\* to the variable the token names
IntOperand(tok, kwargs) ==
    IF IsIntLit(tok) THEN [ok |-> TRUE, var |-> FALSE, v |-> LitInt(tok)]
    ELSE IF tok \in Keys(kwargs) /\ Bound(kwargs, tok).ret.t = "int"
    THEN [ok |-> TRUE, var |-> TRUE, v |-> Bound(kwargs, tok).ret.v]
    ELSE [ok |-> FALSE, var |-> FALSE, v |-> 0]

\* C21: with coercion enabled, as it is by default, the evaluation of
\* `v op lit' or `lit op v', v bound to an integer and lit an integer
\* literal that may carry a minus sign, returns the comparison of the two
\* integers, and so does `v op w' for two variables bound to integers
C21_IntegerComparison ==
    (last.op = "__call__" /\ nodes[2].strings_to_numbers) =>
        LET a == IntOperand(nodes[2].left, last.kwargs)
            b == IntOperand(nodes[2].right, last.kwargs)
        IN  (a.ok /\ b.ok /\ (a.var \/ b.var)) =>
                /\ last.err = "none"
                /\ last.ret = PyBool(Cmp(nodes[2].middle, a.v, b.v))

\* `x == -1' was evaluated with x bound to -1 and gave True
C21_Witness ==
    /\ last.op = "__call__"
    /\ nodes[2] = InEquality(<<"x", " ", "=", "=", " ", "-", "1">>, TRUE).ret
    /\ last.kwargs = << <<(<<"x">>), PyInt(-1)>> >>
    /\ last.ret = PyBool(TRUE)

\* `-1 < y' was evaluated with y bound to 10 and gave True
C21_WitnessLiteralLeft ==
    /\ last.op = "__call__"
    /\ nodes[2] = InEquality(<<"-", "1", " ", "<", " ", "y">>, TRUE).ret
    /\ Bound(last.kwargs, <<"y">>) = Result("none", PyInt(10))
    /\ last.ret = PyBool(TRUE)

\* the operand the substitution should give: the value bound to the bare
\* name of the token, the token itself when no key is its bare name
Substituted(tok, kwargs) ==
    IF BareName(tok) \in Keys(kwargs) THEN Bound(kwargs, BareName(tok)).ret ELSE PyStr(tok)

\* C22: an operand token is replaced by the value bound to the key that is
\* exactly its bare name, and by nothing when no key is, whatever the order
\* of the bindings
C22_ExactNameSubstitution ==
    last.op = "__call__" =>
        \A tok \in {nodes[2].left, nodes[2].right} :
            substitute(tok, last.kwargs) = Substituted(tok, last.kwargs)

\* C23: a value obtained from a binding is compared verbatim: coercion
\* leaves it as it is, and `x == 10' with x bound to the string '10' is False
C23_BoundValuesVerbatim ==
    (last.op = "__call__" /\ nodes[2].strings_to_numbers) =>
        /\ nodes[2].left \in Keys(last.kwargs) =>
              coerce_left(substitute(nodes[2].left, last.kwargs))
                  = substitute(nodes[2].left, last.kwargs)
        /\ nodes[2].right \in Keys(last.kwargs) =>
              coerce_right(substitute(nodes[2].right, last.kwargs))
                  = substitute(nodes[2].right, last.kwargs)
        /\ ( /\ nodes[2].left = <<"x">>
             /\ nodes[2].middle = <<"=", "=">>
             /\ nodes[2].right = <<"1", "0">>
             /\ Bound(last.kwargs, <<"x">>) = Result("none", PyStr(<<"1", "0">>)) )
           => last.ret = PyBool(FALSE)

\* the object an operand with bracket suffixes stands for: the indices
\* sfx[k], sfx[k + 1], ... applied to obj one after the other
RECURSIVE ResolveFrom(_, _, _)
ResolveFrom(obj, sfx, k) ==
    IF k > Len(sfx) THEN Result("none", obj)
    ELSE IF ~IsIntLit(sfx[k]) THEN Result("TypeError", PyNone)
    ELSE LET r == subscript(obj, PyInt(LitInt(sfx[k])))
         IN  IF r.err # "none" THEN r ELSE ResolveFrom(r.ret, sfx, k + 1)

Resolve(tok, kwargs) == ResolveFrom(Substituted(tok, kwargs), Suffixes(tok), 1)

\* C24: with coercion enabled, a left operand with several bracket suffixes
\* whose variable is bound stands for the element the indices select from
\* left to right: compared with an integer literal, the evaluation returns
\* the comparison of that element with the literal
C24_IndicesLeftToRight ==
    (last.op = "__call__" /\ nodes[2].strings_to_numbers) =>
        LET left == Resolve(nodes[2].left, last.kwargs)
            expected == oper(nodes[2].middle, left.ret, PyInt(LitInt(nodes[2].right)))
        IN  ( /\ BareName(nodes[2].left) \in Keys(last.kwargs)
              /\ Len(Suffixes(nodes[2].left)) > 1
              /\ IsIntLit(nodes[2].right)
              /\ left.err = "none" )
            => (last.err = expected.err /\ last.ret = expected.ret)

\* tok names a bound variable and has a bracket index
IndexedVariable(tok, kwargs) == BareName(tok) \in Keys(kwargs) /\ Len(Suffixes(tok)) > 0

\* C25: with coercion disabled, two operands that name bound variables with
\* a bracket index compare exactly as they do with coercion enabled
C25_IndexingWithoutCoercion ==
    ( /\ last.op = "__call__"
      /\ ~nodes[2].strings_to_numbers
      /\ IndexedVariable(nodes[2].left, last.kwargs)
      /\ IndexedVariable(nodes[2].right, last.kwargs) )
    => LET enabled == InEquality_call([nodes[2] EXCEPT !.strings_to_numbers = TRUE],
                                      last.kwargs)
       IN  last.err = enabled.err /\ last.ret = enabled.ret

\* the operator with < and > swapped
Mirror(op) ==
    CASE op = <<"<">> -> <<">">>
      [] op = <<"<", "=">> -> <<">", "=">>
      [] op = <<">", "=">> -> <<"<", "=">>
      [] op = <<">">> -> <<"<">>
      [] OTHER -> op

\* C29: an unsubstituted token is coerced to the same number on the left
\* and on the right of the operator, and an expression evaluates to the
\* result of its mirror image under the same bindings
C29_SideIndependentCoercion ==
    (last.op = "__call__" /\ nodes[2].strings_to_numbers) =>
        /\ \A tok \in {nodes[2].left, nodes[2].right} :
              coerce_left(PyStr(tok)) = coerce_right(PyStr(tok))
        /\ LET mirror == InEquality_call([nodes[2] EXCEPT !.left = nodes[2].right,
                                                          !.middle = Mirror(nodes[2].middle),
                                                          !.right = nodes[2].left],
                                         last.kwargs)
           IN  last.err = mirror.err /\ last.ret = mirror.ret

====
